---- MODULE Spec2Model ----
(***************************************************************************)
(* A model of tape_pytorch/datasets.py: the record-source datasets         *)
(* (FastaDataset, LMDBDataset), the tokenizing wrapper TAPEDataset, the    *)
(* task datasets, the padding primitive PaddedBatch._pad and the task      *)
(* collators.                                                              *)
(*                                                                         *)
(* Conventions.  A Python list or 1-D array is a TLA+ sequence; Python     *)
(* index i is TLA+ index i + 1.  Python None is the empty sequence <<>>    *)
(* and a non-None value v is <<v>>.  A protein sequence (a Python str) is  *)
(* a sequence of one-character strings; a token is a string.               *)
(***************************************************************************)
EXTENDS Integers, Sequences, FiniteSets, TLC

VARIABLES
    \* ---- record sources and TAPEDataset (specification Spec) ----
    kind,                   \* which record source self._dataset is: "fasta" / "lmdb"
    in_memory,              \* self._in_memory
    num_examples,           \* self._num_examples
    cache,                  \* self._cache (a list), meaningful when in_memory
    store,                  \* the records of the LMDB file, record j under key str(j)
    tokenizer,              \* TAPEDataset.tokenizer: "char" or "bpe"
    _convert_tokens_to_ids, \* TAPEDataset._convert_tokens_to_ids
    reads,                  \* per index: how often the underlying store was read
    first,                  \* per index: the value the first successful get returned
    served,                 \* per index: how many calls returned a record
    calls,                  \* number of __getitem__ calls made so far
    ret,                    \* what the last __getitem__ call returned or raised
    \* ---- PaddedBatch._pad (specification SpecPad) ----
    sequences_in,           \* the argument: a list of same-rank arrays
    constant_in,            \* the argument: the fill constant
    padded,                 \* the returned buffer, None before the call
    \* ---- task datasets (specification SpecTask) ----
    task,                   \* which task dataset / collator is in use
    _num_classes,           \* SecondaryStructureDataset._num_classes
    rand,                   \* the values the random module handed out in the last
                            \* call, per token
    example,                \* the tuple the last __getitem__ returned, None if it
                            \* raised or none was made
    \* ---- task collators (specification SpecCollate) ----
    batch_in,               \* the argument: a list of per-example tuples
    collated,               \* the returned batch dictionary, None before the call
    \* ---- task dataset constructors (specification SpecCtor) ----
    ctor_args,              \* the arguments and the files present on disk
    ctor_result             \* how __init__ ended, None before the call

sourceVars == <<kind, in_memory, num_examples, cache, store,
                _convert_tokens_to_ids, reads, first, served, calls, ret>>
padVars == <<sequences_in, constant_in, padded>>
taskVars == <<_num_classes, rand, example>>
collateVars == <<batch_in, collated>>
ctorVars == <<ctor_args, ctor_result>>

vars == <<sourceVars, tokenizer, task, padVars, taskVars, collateVars, ctorVars>>

-----------------------------------------------------------------------------
(* Bounds of the model *)

\* largest record count of a small (cached or LMDB) data file
MaxExamples == 2
\* how many __getitem__ calls a behaviour makes
MaxCalls == 3
\* longest 1-D array handed to _pad
MaxLen == 8
\* largest extent of an axis of a 2-D array handed to _pad
MaxDim == 2
\* largest number of examples in a batch
MaxBatch == 2
\* longest protein handed to a task dataset
MaxSeqLen == 2
\* most residues of a protein handed to the contact-prediction dataset
MaxResidues == 3
\* longest protein handed to the masked-language-model dataset
MaxMaskedLen == 1
\* how many __getitem__ calls a behaviour makes on a task dataset
MaxTaskCalls == 2

-----------------------------------------------------------------------------
(* Python helpers *)

None == <<>>
Some(v) == <<v>>

\* Python list indexing l[i] for an index the caller has range-checked,
\* with Python's wrap-around for negative indices
ListGet(l, i) == IF i >= 0 THEN l[i + 1] ELSE l[Len(l) + i + 1]

Digit(d) == <<"0", "1", "2", "3", "4", "5", "6", "7", "8", "9">>[d + 1]

\* str(index).encode() for index >= 0: the decimal digits
RECURSIVE StrOfInt(_)
StrOfInt(i) == IF i < 10 THEN Digit(i) ELSE StrOfInt(i \div 10) \o Digit(i % 10)

-----------------------------------------------------------------------------
(* The data files.  A file with n records holds, as record j, the protein  *)
(* PoolSeq(j); the content of a file is fixed, only its size varies.       *)

Residues == {"A", "B"}

Pool == << <<"A">>, <<"B", "A">>, <<"A", "B", "B">>, <<>> >>

PoolSeq(j) == Pool[(j % Len(Pool)) + 1]

\* Record j of a fasta file: a SeqRecord with .id and .seq
FastaRecord(j) == [id |-> j, seq |-> PoolSeq(j)]

\* Value stored in an LMDB file under a key: the pickled record
LMDBRecord(j) == [id |-> j, primary |-> PoolSeq(j), protein_length |-> Len(PoolSeq(j))]

pkl_dumps(v) == [pickled |-> v]
pkl_loads(b) == b.pickled

\* The LMDB file of n records that Spec opens
LMDBFile(n) == [k \in 1..n |-> LMDBRecord(k - 1)]

\* txn.get(key): the bytes under the key, or None
txn_get(key) ==
    IF \E j \in 0..(Len(store) - 1) : StrOfInt(j) = key
    THEN LET j == CHOOSE j \in 0..(Len(store) - 1) : StrOfInt(j) = key
         IN  Some(pkl_dumps(store[j + 1]))
    ELSE None

\* FastaDataset reads the whole file into memory below this record count
FastaThreshold == 10000

\* Record counts of the files the model opens
SmallSizes == 0..MaxExamples
LargeSizes == {FastaThreshold, FastaThreshold + 1}

\* Indices the model passes to __getitem__
Indexes == (-2..(MaxExamples + 1))
           \cup {FastaThreshold - 1, FastaThreshold, FastaThreshold + 1}


-----------------------------------------------------------------------------
(* The tokenizer (tape_pytorch.tokenizers is not part of the sources; it   *)
(* is modelled from the interface the specification gives: tokenize,       *)
(* convert_tokens_to_ids, convert_token_to_id, convert_id_to_token,        *)
(* cls_token, sep_token, mask_token, vocab_size).  "char" emits one token  *)
(* per residue; "bpe" emits subword units of up to two residues, the first *)
(* carrying a prepended start marker "_".                                  *)

cls_token == "<cls>"
sep_token == "<sep>"
mask_token == "<mask>"

Vocab == <<"<pad>", "<mask>", "<cls>", "<sep>", "A", "B", "AA", "AB", "BA", "BB",
           "_A", "_B", "_AA", "_AB", "_BA", "_BB">>

vocab_size == Len(Vocab)

convert_token_to_id(token) == (CHOOSE k \in 1..Len(Vocab) : Vocab[k] = token) - 1

convert_id_to_token(id) == Vocab[id + 1]

convert_tokens_to_ids(tokens) ==
    [k \in 1..Len(tokens) |-> convert_token_to_id(tokens[k])]

RECURSIVE BPEChunks(_)
BPEChunks(s) ==
    IF s = <<>> THEN <<>>
    ELSE IF Len(s) = 1 THEN <<s[1]>>
    ELSE <<s[1] \o s[2]>> \o BPEChunks(SubSeq(s, 3, Len(s)))

tokenize(tok, primary) ==
    IF tok = "char" THEN [k \in 1..Len(primary) |-> primary[k]]
    ELSE LET chunks == BPEChunks(primary)
         IN  IF chunks = <<>> THEN <<>>
             ELSE <<"_" \o Head(chunks)>> \o Tail(chunks)

\* isinstance(self.tokenizer, tokenizers.BPETokenizer)
IsBPETokenizer(tok) == tok = "bpe"

Tokenizers == {"char", "bpe"}

-----------------------------------------------------------------------------
(* FastaDataset *)

\* FastaDataset.__init__ on an existing file of n records.  With in_memory
\* set, SeqIO.parse is called without its format argument and raises
\* TypeError before any field is assigned: no object is built.
FastaInit(n, in_memory_arg) ==
    IF in_memory_arg
    THEN [status |-> "TypeError", in_memory |-> FALSE, num_examples |-> 0,
          cache |-> <<>>]
    ELSE IF n < FastaThreshold
    THEN [status |-> "ok", in_memory |-> TRUE, num_examples |-> n,
          cache |-> [k \in 1..n |-> Some(FastaRecord(k - 1))]]
    ELSE [status |-> "ok", in_memory |-> FALSE, num_examples |-> n, cache |-> <<>>]

FastaItem(record) ==
    [id |-> record.id, primary |-> record.seq, protein_length |-> Len(record.seq)]

\* FastaDataset.__getitem__: the outcome, the cache afterwards, and whether
\* the indexed file was read
FastaGet(index) ==
    IF ~(0 <= index /\ index < num_examples)
    THEN [status |-> "IndexError", error |-> Some(index), item |-> None,
          cache |-> cache, read |-> FALSE]
    ELSE IF in_memory /\ ListGet(cache, index) # None
    THEN [status |-> "ok", error |-> None,
          item |-> Some(FastaItem(ListGet(cache, index)[1])),
          cache |-> cache, read |-> FALSE]
    ELSE IF in_memory
    THEN \* self._keys is set only when the file was not read into memory
         [status |-> "AttributeError", error |-> None, item |-> None,
          cache |-> cache, read |-> FALSE]
    ELSE [status |-> "ok", error |-> None,
          item |-> Some(FastaItem(FastaRecord(index))),
          cache |-> cache, read |-> TRUE]

-----------------------------------------------------------------------------
(* LMDBDataset *)

\* LMDBDataset.__init__ on an existing store of n records
LMDBInit(n, in_memory_arg) ==
    [status |-> "ok", in_memory |-> in_memory_arg, num_examples |-> n,
     cache |-> IF in_memory_arg THEN [k \in 1..n |-> None] ELSE <<>>]

\* Mutant: the range check forgets the lower bound, so that a negative index
\* wraps around in the cache list or reaches the store under a key it lacks
LMDBGet_NoLowerBound(index) ==
    IF ~(index < num_examples)
    THEN [status |-> "IndexError", error |-> Some(index), item |-> None,
          cache |-> cache, read |-> FALSE]
    ELSE IF index < 0
    THEN IF in_memory /\ -index > Len(cache)
         THEN [status |-> "IndexError", error |-> None, item |-> None,
               cache |-> cache, read |-> FALSE]
         ELSE IF in_memory /\ ListGet(cache, index) # None
         THEN [status |-> "ok", error |-> None, item |-> ListGet(cache, index),
               cache |-> cache, read |-> FALSE]
         ELSE [status |-> "TypeError", error |-> None, item |-> None,
               cache |-> cache, read |-> TRUE]
    ELSE IF in_memory /\ ListGet(cache, index) # None
    THEN [status |-> "ok", error |-> None, item |-> ListGet(cache, index),
          cache |-> cache, read |-> FALSE]
    ELSE LET item == pkl_loads(txn_get(StrOfInt(index))[1])
         IN  [status |-> "ok", error |-> None, item |-> Some(item),
              cache |-> IF in_memory
                        THEN [cache EXCEPT ![index + 1] = Some(item)]
                        ELSE cache,
              read |-> TRUE]

\* Mutant: the record read from the store is never put into the cache
LMDBGet_NoStore(index) ==
    IF ~(0 <= index /\ index < num_examples)
    THEN [status |-> "IndexError", error |-> Some(index), item |-> None,
          cache |-> cache, read |-> FALSE]
    ELSE IF in_memory /\ ListGet(cache, index) # None
    THEN [status |-> "ok", error |-> None, item |-> ListGet(cache, index),
          cache |-> cache, read |-> FALSE]
    ELSE LET item == pkl_loads(txn_get(StrOfInt(index))[1])
         IN  [status |-> "ok", error |-> None, item |-> Some(item),
              cache |-> cache, read |-> TRUE]

\* LMDBDataset.__getitem__
LMDBGet(index) ==
    IF ~(0 <= index /\ index < num_examples)
    THEN [status |-> "IndexError", error |-> Some(index), item |-> None,
          cache |-> cache, read |-> FALSE]
    ELSE IF in_memory /\ ListGet(cache, index) # None
    THEN [status |-> "ok", error |-> None, item |-> ListGet(cache, index),
          cache |-> cache, read |-> FALSE]
    ELSE LET bytes == txn_get(StrOfInt(index))
         IN  IF bytes = None
             THEN \* pkl.loads(None)
                  [status |-> "TypeError", error |-> None, item |-> None,
                   cache |-> cache, read |-> TRUE]
             ELSE LET item == pkl_loads(bytes[1])
                  IN  [status |-> "ok", error |-> None, item |-> Some(item),
                       cache |-> IF in_memory
                                 THEN [cache EXCEPT ![index + 1] = Some(item)]
                                 ELSE cache,
                       read |-> TRUE]

-----------------------------------------------------------------------------
(* TAPEDataset *)

\* self._dataset[index]
DatasetGet(index) == IF kind = "fasta" THEN FastaGet(index) ELSE LMDBGet(index)

Ones(n) == [k \in 1..n |-> 1]

\* Mutant: the separator token is not appended
TAPEExample_NoSep(item, tok, convert) ==
    LET tokens == <<cls_token>> \o tokenize(tok, item.primary)
        out == IF convert THEN convert_tokens_to_ids(tokens) ELSE tokens
    IN  [item |-> item, tokens |-> out, attention_mask |-> Ones(Len(out))]

\* The body of TAPEDataset.__getitem__ after the record was fetched
TAPEExample(item, tok, convert) ==
    LET tokens == <<cls_token>> \o tokenize(tok, item.primary) \o <<sep_token>>
        out == IF convert THEN convert_tokens_to_ids(tokens) ELSE tokens
    IN  [item |-> item, tokens |-> out, attention_mask |-> Ones(Len(out))]

-----------------------------------------------------------------------------
(* Specification Spec: one dataset object and the calls made on it *)

\* The variables of the other components while a component is not in use
SourceIdle ==
    /\ kind = "none" /\ in_memory = FALSE /\ num_examples = 0 /\ cache = <<>>
    /\ store = <<>>
    /\ _convert_tokens_to_ids = FALSE /\ reads = <<>> /\ first = <<>>
    /\ served = <<>> /\ calls = 0 /\ ret = <<>>
PadIdle == sequences_in = <<>> /\ constant_in = 0 /\ padded = None
TaskIdle == _num_classes = 3 /\ rand = <<>> /\ example = None
CollateIdle == batch_in = <<>> /\ collated = None
CtorIdle == ctor_args = None /\ ctor_result = None

NoRet == [op |-> "none", status |-> "none", index |-> 0, error |-> None,
          item |-> None, tokens |-> <<>>, attention_mask |-> <<>>]

Init ==
    /\ kind \in {"fasta", "lmdb"}
    /\ tokenizer \in Tokenizers
    /\ _convert_tokens_to_ids \in BOOLEAN
    /\ \E n \in SmallSizes \cup LargeSizes, in_memory_arg \in BOOLEAN :
          /\ n \in LargeSizes => (kind = "fasta" /\ ~in_memory_arg)
          /\ LET ds == IF kind = "fasta" THEN FastaInit(n, in_memory_arg)
                       ELSE LMDBInit(n, in_memory_arg)
             IN  /\ ds.status = "ok"
                 /\ in_memory = ds.in_memory
                 /\ num_examples = ds.num_examples
                 /\ cache = ds.cache
          /\ store = IF kind = "lmdb" THEN LMDBFile(n) ELSE <<>>
    /\ reads = [i \in Indexes |-> 0]
    /\ first = [i \in Indexes |-> None]
    /\ served = [i \in Indexes |-> 0]
    /\ calls = 0
    /\ ret = NoRet
    /\ task = "embed"
    /\ PadIdle /\ TaskIdle /\ CollateIdle /\ CtorIdle

\* What a call of the record source leaves behind
Returned(index, r) ==
    /\ cache' = r.cache
    /\ reads' = IF r.read THEN [reads EXCEPT ![index] = @ + 1] ELSE reads
    /\ first' = IF r.status = "ok" /\ first[index] = None
                THEN [first EXCEPT ![index] = r.item] ELSE first
    /\ served' = IF r.status = "ok" THEN [served EXCEPT ![index] = @ + 1] ELSE served
    /\ calls' = calls + 1
    /\ UNCHANGED <<kind, in_memory, num_examples, store, tokenizer,
                   _convert_tokens_to_ids>>
    /\ UNCHANGED <<task, padVars, _num_classes, collateVars, ctorVars>>

\* FastaDataset.__getitem__(index)
FastaGetItem(index) ==
    /\ kind = "fasta"
    /\ calls < MaxCalls
    /\ LET r == FastaGet(index)
       IN  /\ Returned(index, r)
           /\ UNCHANGED <<rand, example>>
           /\ ret' = [NoRet EXCEPT !.op = "FastaDataset", !.status = r.status,
                                   !.index = index, !.error = r.error,
                                   !.item = r.item]

\* LMDBDataset.__getitem__(index)
LMDBGetItem(index) ==
    /\ kind = "lmdb"
    /\ calls < MaxCalls
    /\ LET r == LMDBGet(index)
       IN  /\ Returned(index, r)
           /\ UNCHANGED <<rand, example>>
           /\ ret' = [NoRet EXCEPT !.op = "LMDBDataset", !.status = r.status,
                                   !.index = index, !.error = r.error,
                                   !.item = r.item]

\* TAPEDataset.__getitem__(index)
TAPEGetItem(index) ==
    /\ calls < MaxCalls
    /\ LET r == DatasetGet(index)
       IN  /\ Returned(index, r)
           /\ UNCHANGED <<rand, example>>
           /\ ret' = IF r.status # "ok"
                     THEN [NoRet EXCEPT !.op = "TAPEDataset", !.status = r.status,
                                        !.index = index, !.error = r.error]
                     ELSE LET e == TAPEExample(r.item[1], tokenizer,
                                               _convert_tokens_to_ids)
                          IN  [op |-> "TAPEDataset", status |-> "ok",
                               index |-> index, error |-> None,
                               item |-> Some(e.item), tokens |-> e.tokens,
                               attention_mask |-> e.attention_mask]

Next ==
    \E index \in Indexes :
        \/ FastaGetItem(index)
        \/ LMDBGetItem(index)
        \/ TAPEGetItem(index)

Spec == Init /\ [][Next]_vars

-----------------------------------------------------------------------------
(* numpy arrays.  An array is its shape (a tuple of extents) and its data, *)
(* a function from the 0-based index tuples of that shape to the elements. *)

RECURSIVE Indices(_)
Indices(shape) ==
    IF shape = <<>> THEN {<<>>}
    ELSE {<<i>> \o u : i \in 0..(shape[1] - 1), u \in Indices(Tail(shape))}

\* np.array(list) of a flat list
Array1(list) ==
    [shape |-> <<Len(list)>>, data |-> [u \in Indices(<<Len(list)>>) |-> list[u[1] + 1]]]

\* whether index tuple u lies in the region slice(dim) for dim in shape
InSlice(u, shape) == \A a \in 1..Len(shape) : u[a] < shape[a]

\* np.max([seq.shape for seq in sequences], 0).tolist()
MaxShape(sequences) ==
    [a \in 1..Len(sequences[1].shape) |->
        CHOOSE d \in {sequences[k].shape[a] : k \in 1..Len(sequences)} :
            \A k \in 1..Len(sequences) : sequences[k].shape[a] <= d]

\* Mutant: the buffer is left zero-filled, the fill constant is not added
_pad_ZeroFill(sequences, constant_value) ==
    LET shape == <<Len(sequences)>> \o MaxShape(sequences)
    IN  [shape |-> shape,
         data |-> [t \in Indices(shape) |->
                     LET seq == sequences[t[1] + 1]
                     IN  IF InSlice(Tail(t), seq.shape) THEN seq.data[Tail(t)]
                         ELSE 0]]

\* PaddedBatch._pad
_pad(sequences, constant_value) ==
    LET batch_size == Len(sequences)
        shape == <<batch_size>> \o MaxShape(sequences)
    IN  [shape |-> shape,
         data |-> [t \in Indices(shape) |->
                     LET seq == sequences[t[1] + 1]
                     IN  IF InSlice(Tail(t), seq.shape) THEN seq.data[Tail(t)]
                         ELSE constant_value]]

-----------------------------------------------------------------------------
(* Specification SpecPad: _pad applied to a batch of same-rank arrays *)

\* Shapes of the arrays of one rank the model hands to _pad
Shapes(rank) ==
    IF rank = 1 THEN {<<n>> : n \in 0..MaxLen}
    ELSE {<<r, c>> : r \in 0..MaxDim, c \in 0..MaxDim}

RECURSIVE Code(_)
Code(u) == IF u = <<>> THEN 0 ELSE u[1] + 16 * Code(Tail(u))

RECURSIVE SumOf(_)
SumOf(u) == IF u = <<>> THEN 0 ELSE u[1] + SumOf(Tail(u))

\* Element at position u of example k: pattern 0 makes every element of a
\* batch distinct, pattern 1 draws the elements from the fill constants
Element(pattern, k, u) ==
    IF pattern = 0 THEN 2 + k + 4 * Code(u) ELSE ((k + SumOf(u)) % 3) - 1

ArrayOf(shape, pattern, k) ==
    [shape |-> shape, data |-> [u \in Indices(shape) |-> Element(pattern, k, u)]]

Patterns == {0, 1}

\* 0 pads ids and masks, -1 labels, 1 token lengths
FillConstants == {-1, 0, 1}

InitPad ==
    /\ \E rank \in {1, 2}, n \in 1..MaxBatch, pattern \in Patterns :
          \E shapes \in [1..n -> Shapes(rank)] :
              sequences_in = [k \in 1..n |-> ArrayOf(shapes[k], pattern, k - 1)]
    /\ constant_in \in FillConstants
    /\ padded = None
    /\ tokenizer = "char" /\ task = "embed"
    /\ SourceIdle /\ TaskIdle /\ CollateIdle /\ CtorIdle

\* self._pad(sequences, constant_value)
Pad ==
    /\ padded = None
    /\ padded' = Some(_pad(sequences_in, constant_in))
    /\ UNCHANGED <<sequences_in, constant_in>>
    /\ UNCHANGED <<sourceVars, tokenizer, task, taskVars, collateVars, ctorVars>>

NextPad == Pad

SpecPad == InitPad /\ [][NextPad]_vars

-----------------------------------------------------------------------------
(* PfamDataset: masked-language-model labelling.  random.random() is       *)
(* modelled in thousandths: rand[i].prob is the draw for token i, and      *)
(* rand[i].id the value random.randint hands out if it is asked.           *)

\* 0.15, 0.8 and 0.9 in thousandths
MaskProb == 150
MaskTokenProb == 800
RandomTokenProb == 900

\* prob /= 0.15 followed by prob < bound, in exact arithmetic
ScaledBelow(prob, bound) == prob * 1000 < bound * MaskProb

\* Mutant: the boundary tokens are skipped (the `pass` replaced by `continue`)
_apply_bert_mask_SkipBoundary(tokens, draws) ==
    LET masked(i) == tokens[i] \notin {cls_token, sep_token}
                     /\ draws[i].prob < MaskProb
    IN  [masked_tokens |->
            [i \in 1..Len(tokens) |->
                IF ~masked(i) THEN tokens[i]
                ELSE IF ScaledBelow(draws[i].prob, MaskTokenProb) THEN mask_token
                ELSE IF ScaledBelow(draws[i].prob, RandomTokenProb)
                     THEN convert_id_to_token(draws[i].id)
                ELSE tokens[i]],
         labels |->
            [i \in 1..Len(tokens) |->
                IF masked(i) THEN convert_token_to_id(tokens[i]) ELSE -1]]

\* PfamDataset._apply_bert_mask
_apply_bert_mask(tokens, draws) ==
    [masked_tokens |->
        [i \in 1..Len(tokens) |->
            IF ~(draws[i].prob < MaskProb) THEN tokens[i]
            ELSE IF ScaledBelow(draws[i].prob, MaskTokenProb) THEN mask_token
            ELSE IF ScaledBelow(draws[i].prob, RandomTokenProb)
                 THEN convert_id_to_token(draws[i].id)
            ELSE tokens[i]],
     labels |->
        [i \in 1..Len(tokens) |->
            IF draws[i].prob < MaskProb THEN convert_token_to_id(tokens[i]) ELSE -1]]

\* PfamDataset.__getitem__ after the record was fetched
PfamExample(fetched, tok, draws) ==
    LET e == TAPEExample(fetched, tok, FALSE)
        m == _apply_bert_mask(e.tokens, draws)
        masked_token_ids == convert_tokens_to_ids(m.masked_tokens)
    IN  [status |-> "ok",
         value |-> <<masked_token_ids, e.attention_mask, m.labels,
                     fetched.clan, fetched.family>>]

-----------------------------------------------------------------------------
(* FluorescenceDataset, StabilityDataset, RemoteHomologyDataset *)

FluorescenceExample(fetched, tok) ==
    LET e == TAPEExample(fetched, tok, TRUE)
    IN  [status |-> "ok",
         value |-> <<e.tokens, e.attention_mask, fetched.log_fluorescence[1]>>]

StabilityExample(fetched, tok) ==
    LET e == TAPEExample(fetched, tok, TRUE)
    IN  [status |-> "ok",
         value |-> <<e.tokens, e.attention_mask, fetched.stability_score[1]>>]

RemoteHomologyExample(fetched, tok) ==
    LET e == TAPEExample(fetched, tok, TRUE)
    IN  [status |-> "ok",
         value |-> <<e.tokens, e.attention_mask, fetched.fold_label>>]

-----------------------------------------------------------------------------
(* ProteinnetDataset: contact maps.  Coordinates are integers; distances   *)
(* are compared through their squares, which decides d < 8.0 exactly.      *)

ContactThreshold == 8

SqDist(p, q) ==
    (p[1] - q[1]) * (p[1] - q[1]) + (p[2] - q[2]) * (p[2] - q[2])
    + (p[3] - q[3]) * (p[3] - q[3])

\* pdist(tertiary): the (squared) distances of the pairs i < j, 0-based
pdist(tertiary) ==
    [pr \in {<<i, j>> \in (0..(Len(tertiary) - 1)) \X (0..(Len(tertiary) - 1)) : i < j}
        |-> SqDist(tertiary[pr[1] + 1], tertiary[pr[2] + 1])]

\* squareform of a condensed distance vector: the number of points is
\* inferred from the number of distances, and the empty vector (0 points or
\* 1 point) gives the 1 x 1 zero matrix
squareform(dm) ==
    LET d == Cardinality(DOMAIN dm)
        n == IF d = 0 THEN 1 ELSE CHOOSE k \in 2..(d + 1) : k * (k - 1) = 2 * d
    IN  [shape |-> <<n, n>>,
         data |-> [u \in Indices(<<n, n>>) |->
                     IF u[1] = u[2] THEN 0
                     ELSE IF u[1] < u[2] THEN dm[<<u[1], u[2]>>]
                     ELSE dm[<<u[2], u[1]>>]]]

\* contact_map[mask] = -1 with a boolean mask of another shape than the map
\* raises IndexError
MaskMismatch(d, valid_mask) == d.shape # <<Len(valid_mask), Len(valid_mask)>>

NoMap == [status |-> "IndexError", map |-> None]

\* Mutant: only the rows of invalid residues are set to -1, not the columns
ContactMap_RowsOnly(tertiary, valid_mask) ==
    LET d == squareform(pdist(tertiary))
    IN  IF MaskMismatch(d, valid_mask) THEN NoMap
        ELSE [status |-> "ok",
              map |-> [shape |-> d.shape,
                       data |-> [u \in DOMAIN d.data |->
                                   IF ~valid_mask[u[1] + 1] THEN -1
                                   ELSE IF d.data[u] < ContactThreshold * ContactThreshold THEN 1
                                   ELSE 0]]]

\* Mutant: the distances are compared with a threshold of 10.0
ContactMap_LooseThreshold(tertiary, valid_mask) ==
    LET d == squareform(pdist(tertiary))
    IN  IF MaskMismatch(d, valid_mask) THEN NoMap
        ELSE [status |-> "ok",
              map |-> [shape |-> d.shape,
                       data |-> [u \in DOMAIN d.data |->
                                   IF ~(valid_mask[u[1] + 1] /\ valid_mask[u[2] + 1]) THEN -1
                                   ELSE IF d.data[u] < (ContactThreshold + 2) * (ContactThreshold + 2) THEN 1
                                   ELSE 0]]]

\* np.less(squareform(pdist(tertiary)), 8.0).astype(np.int64), then -1
\* wherever the row's or the column's residue is not valid; the squared
\* distances are compared with the squared threshold
ContactMap(tertiary, valid_mask) ==
    LET d == squareform(pdist(tertiary))
    IN  IF MaskMismatch(d, valid_mask) THEN NoMap
        ELSE [status |-> "ok",
              map |-> [shape |-> d.shape,
                       data |-> [u \in DOMAIN d.data |->
                                   IF ~(valid_mask[u[1] + 1] /\ valid_mask[u[2] + 1]) THEN -1
                                   ELSE IF d.data[u] < ContactThreshold * ContactThreshold THEN 1
                                   ELSE 0]]]

\* ProteinnetDataset.__getitem__ after the record was fetched
ProteinnetExample(fetched, tok) ==
    LET e == TAPEExample(fetched, tok, TRUE)
        contact_map == ContactMap(fetched.tertiary, fetched.valid_mask)
    IN  IF contact_map.status # "ok"
        THEN [status |-> contact_map.status, value |-> <<>>]
        ELSE [status |-> "ok",
              value |-> <<e.tokens, e.attention_mask, contact_map.map>>]

-----------------------------------------------------------------------------
(* SecondaryStructureDataset *)

\* np.pad(a, (1, 1), 'constant', constant_values=c)
np_pad(a, c) == <<c>> \o a \o <<c>>

\* SecondaryStructureDataset.__getitem__ after the record was fetched
SecondaryStructureExample(fetched, tok, num_classes) ==
    LET e == TAPEExample(fetched, tok, FALSE)
        tokens == e.tokens
        labels == np_pad(IF num_classes = 3 THEN fetched.ss3 ELSE fetched.ss8, -1)
        inner == SubSeq(tokens, 2, Len(tokens) - 1)
        lengths == [k \in 1..Len(inner) |-> Len(inner[k])]
        token_ids == convert_tokens_to_ids(tokens)
    IN  IF IsBPETokenizer(tok) /\ inner = <<>>
        THEN \* token_lengths[0] -= 1 on an empty array
             [status |-> "IndexError", value |-> <<>>]
        ELSE [status |-> "ok",
              value |-> <<token_ids, e.attention_mask, labels,
                          IF IsBPETokenizer(tok)
                          THEN Some(np_pad([lengths EXCEPT ![1] = @ - 1], 1))
                          ELSE None>>]

-----------------------------------------------------------------------------
(* Specification SpecTask: a task dataset over the LMDB file of its task   *)
(* (every task constructor names a '.lmdb' data file) and the __getitem__  *)
(* calls made on it.  A call first fetches the record from the record      *)
(* source through TAPEDataset.__getitem__ and then builds the task's       *)
(* tuple from it.                                                          *)

Tasks == {"pfam", "fluorescence", "stability", "remote_homology",
          "contact_prediction", "secondary_structure"}

Primaries == UNION {[1..n -> Residues] : n \in 0..MaxSeqLen}

MaskedPrimaries == UNION {[1..n -> Residues] : n \in 0..MaxMaskedLen}

\* Residue coordinates the model uses
Points == {<<0, 0, 0>>, <<1, 0, 0>>, <<0, 8, 0>>, <<10, 0, 0>>}

\* Secondary-structure labels of a protein of length n
SS3(n) == [k \in 1..n |-> k % 3]
SS8(n) == [k \in 1..n |-> (k + 4) % 8]

\* The records the model stores for a task
TaskItems(t) ==
    CASE t = "pfam" ->
            {[primary |-> pr, clan |-> 3, family |-> 7] : pr \in MaskedPrimaries}
      [] t = "fluorescence" ->
            {[primary |-> pr, log_fluorescence |-> <<v>>] :
                pr \in Primaries, v \in {-2, 3}}
      [] t = "stability" ->
            {[primary |-> pr, stability_score |-> <<v>>] :
                pr \in Primaries, v \in {-1, 1}}
      [] t = "remote_homology" ->
            {[primary |-> pr, fold_label |-> v] : pr \in Primaries, v \in {0, 5}}
      [] t = "contact_prediction" ->
            UNION {{[primary |-> [k \in 1..n |-> "A"], tertiary |-> xyz,
                     valid_mask |-> vm] :
                        xyz \in [1..n -> Points], vm \in [1..n -> BOOLEAN]} :
                   n \in 0..MaxResidues}
      [] t = "secondary_structure" ->
            {[primary |-> pr, ss3 |-> SS3(Len(pr)), ss8 |-> SS8(Len(pr))] :
                pr \in Primaries}

\* The LMDB files the model opens for a task: files of one record
TaskFiles(t) == {<<r>> : r \in TaskItems(t)}

\* Indices the model passes to a task dataset: the record's, one below and
\* one above
TaskIndexes == {-1, 0, 1}

\* convert_tokens_to_ids, as the task's constructor passes it on
TaskConverts(t) == t \notin {"pfam", "secondary_structure"}

\* Values random.random() hands out (thousandths) and values random.randint
\* hands out
Probs == {0, 120, 149, 150}
RandomIds == {5}

\* randint is asked only on the branch that puts in a random token
AsksRandint(prob) ==
    /\ prob < MaskProb
    /\ ~ScaledBelow(prob, MaskTokenProb)
    /\ ScaledBelow(prob, RandomTokenProb)

Draws ==
    {[prob |-> pb, id |-> 0] : pb \in {q \in Probs : ~AsksRandint(q)}}
    \cup {[prob |-> pb, id |-> r] : pb \in {q \in Probs : AsksRandint(q)}, r \in RandomIds}

NumClasses == {3, 8}

InitTask ==
    /\ task \in Tasks
    /\ tokenizer \in Tokenizers
    /\ _convert_tokens_to_ids = TaskConverts(task)
    /\ _num_classes \in IF task = "secondary_structure" THEN NumClasses ELSE {3}
    /\ kind = "lmdb"
    /\ store \in TaskFiles(task)
    /\ \E in_memory_arg \in BOOLEAN :
          LET ds == LMDBInit(Len(store), in_memory_arg)
          IN  /\ ds.status = "ok"
              /\ in_memory = ds.in_memory
              /\ num_examples = ds.num_examples
              /\ cache = ds.cache
    /\ reads = [i \in Indexes |-> 0]
    /\ first = [i \in Indexes |-> None]
    /\ served = [i \in Indexes |-> 0]
    /\ calls = 0
    /\ ret = NoRet
    /\ rand = <<>>
    /\ example = None
    /\ PadIdle /\ CollateIdle /\ CtorIdle

\* super().__getitem__(index) raised: the call of the task dataset raises
Raised(op, index, r) ==
    /\ ret' = [NoRet EXCEPT !.op = op, !.status = r.status, !.index = index,
                            !.error = r.error]
    /\ example' = None

\* The call of the task dataset went on with the fetched record and ended
\* as e tells
Answered(op, index, e) ==
    /\ ret' = [NoRet EXCEPT !.op = op, !.status = e.status, !.index = index]
    /\ example' = IF e.status = "ok" THEN Some(e) ELSE None

\* PfamDataset.__getitem__(index)
PfamGetItem(index) ==
    /\ task = "pfam"
    /\ calls < MaxTaskCalls
    /\ LET r == DatasetGet(index)
       IN  /\ Returned(index, r)
           /\ IF r.status # "ok"
              THEN /\ Raised("PfamDataset", index, r)
                   /\ rand' = <<>>
              ELSE \E draws \in [1..(Len(tokenize(tokenizer, r.item[1].primary)) + 2)
                                    -> Draws] :
                      /\ rand' = draws
                      /\ Answered("PfamDataset", index,
                                  PfamExample(r.item[1], tokenizer, draws))

\* FluorescenceDataset.__getitem__(index)
FluorescenceGetItem(index) ==
    /\ task = "fluorescence"
    /\ calls < MaxTaskCalls
    /\ rand' = <<>>
    /\ LET r == DatasetGet(index)
       IN  /\ Returned(index, r)
           /\ IF r.status # "ok"
              THEN Raised("FluorescenceDataset", index, r)
              ELSE Answered("FluorescenceDataset", index,
                            FluorescenceExample(r.item[1], tokenizer))

\* StabilityDataset.__getitem__(index)
StabilityGetItem(index) ==
    /\ task = "stability"
    /\ calls < MaxTaskCalls
    /\ rand' = <<>>
    /\ LET r == DatasetGet(index)
       IN  /\ Returned(index, r)
           /\ IF r.status # "ok"
              THEN Raised("StabilityDataset", index, r)
              ELSE Answered("StabilityDataset", index,
                            StabilityExample(r.item[1], tokenizer))

\* RemoteHomologyDataset.__getitem__(index)
RemoteHomologyGetItem(index) ==
    /\ task = "remote_homology"
    /\ calls < MaxTaskCalls
    /\ rand' = <<>>
    /\ LET r == DatasetGet(index)
       IN  /\ Returned(index, r)
           /\ IF r.status # "ok"
              THEN Raised("RemoteHomologyDataset", index, r)
              ELSE Answered("RemoteHomologyDataset", index,
                            RemoteHomologyExample(r.item[1], tokenizer))

\* ProteinnetDataset.__getitem__(index)
ProteinnetGetItem(index) ==
    /\ task = "contact_prediction"
    /\ calls < MaxTaskCalls
    /\ rand' = <<>>
    /\ LET r == DatasetGet(index)
       IN  /\ Returned(index, r)
           /\ IF r.status # "ok"
              THEN Raised("ProteinnetDataset", index, r)
              ELSE Answered("ProteinnetDataset", index,
                            ProteinnetExample(r.item[1], tokenizer))

\* SecondaryStructureDataset.__getitem__(index)
SecondaryStructureGetItem(index) ==
    /\ task = "secondary_structure"
    /\ calls < MaxTaskCalls
    /\ rand' = <<>>
    /\ LET r == DatasetGet(index)
       IN  /\ Returned(index, r)
           /\ IF r.status # "ok"
              THEN Raised("SecondaryStructureDataset", index, r)
              ELSE Answered("SecondaryStructureDataset", index,
                            SecondaryStructureExample(r.item[1], tokenizer,
                                                      _num_classes))

NextTask ==
    \E index \in TaskIndexes :
        \/ PfamGetItem(index)
        \/ FluorescenceGetItem(index)
        \/ StabilityGetItem(index)
        \/ RemoteHomologyGetItem(index)
        \/ ProteinnetGetItem(index)
        \/ SecondaryStructureGetItem(index)

SpecTask == InitTask /\ [][NextTask]_vars

-----------------------------------------------------------------------------
(* The constructors of TAPEDataset and of the task datasets.  An argument  *)
(* record a holds mode, tokenizer ("bpe" or another name, or "instance"    *)
(* for a TAPETokenizer object), in_memory, and what is on disk:            *)
(* model_file_exists (data_path / 'pfam.model'), cwd_file_exists (the data *)
(* file relative to the working directory) and data_path_file_exists (the  *)
(* data file under data_path).                                             *)

\* How a constructor ends.  tokenizer_loaded and file_checked tell how far
\* it went.
CtorOutcome(status, a, message_modes, path, loaded, checked) ==
    [status |-> status, mode |-> a.mode, modes |-> message_modes, path |-> path,
     tokenizer_loaded |-> loaded, file_checked |-> checked]

\* registry.get_tokenizer_class(name).from_pretrained(model_file=model_file):
\* whether it yields a tokenizer
TokenizerLoads(name, model_file_exists) == name = "bpe" /\ model_file_exists

\* TAPEDataset.__init__
TAPEInit(a, data_file, convert) ==
    LET is_str == a.tokenizer # "instance"
    IN  IF is_str /\ ~TokenizerLoads(a.tokenizer, a.model_file_exists)
        THEN CtorOutcome("TokenizerLoadError", a, <<>>, "", FALSE, FALSE)
        ELSE IF ~a.cwd_file_exists /\ ~a.data_path_file_exists
        THEN CtorOutcome("FileNotFoundError", a, <<>>, "data_path/" \o data_file,
                         is_str, TRUE)
        ELSE CtorOutcome("ok", a, <<>>,
                         IF a.cwd_file_exists THEN data_file
                         ELSE "data_path/" \o data_file,
                         is_str, TRUE)

\* raise ValueError(f"Unrecognized mode: {mode}. Must be one of [...]")
ModeError(a, message_modes) ==
    CtorOutcome("ValueError", a, message_modes, "", FALSE, FALSE)

InTuple(x, tuple) == \E k \in 1..Len(tuple) : tuple[k] = x

\* Mutant: the mode is validated only after the base class was constructed
PfamInit_CheckLast(a) ==
    LET base == TAPEInit(a, "pfam/pfam_" \o a.mode \o ".lmdb", FALSE)
    IN  IF base.status # "ok" THEN base
        ELSE IF ~InTuple(a.mode, <<"train", "valid", "holdout">>)
        THEN ModeError(a, <<"train", "valid", "holdout">>)
        ELSE base

\* PfamDataset.__init__
PfamInit(a) ==
    IF ~InTuple(a.mode, <<"train", "valid", "holdout">>)
    THEN ModeError(a, <<"train", "valid", "holdout">>)
    ELSE TAPEInit(a, "pfam/pfam_" \o a.mode \o ".lmdb", FALSE)

\* FluorescenceDataset.__init__
FluorescenceInit(a) ==
    IF ~InTuple(a.mode, <<"train", "valid", "test">>)
    THEN ModeError(a, <<"train", "valid", "test">>)
    ELSE TAPEInit(a, "fluorescence/fluorescence_" \o a.mode \o ".lmdb", TRUE)

\* StabilityDataset.__init__
StabilityInit(a) ==
    IF ~InTuple(a.mode, <<"train", "valid", "test">>)
    THEN ModeError(a, <<"train", "valid", "test">>)
    ELSE TAPEInit(a, "stability/stability_" \o a.mode \o ".lmdb", TRUE)

\* RemoteHomologyDataset.__init__
RemoteHomologyInit(a) ==
    IF ~InTuple(a.mode, <<"train", "valid", "test_fold_holdout",
                          "test_family_holdout", "test_superfamily_holdout">>)
    THEN ModeError(a, <<"train", "valid", "test_fold_holdout",
                        "test_family_holdout", "test_superfamily_holdout">>)
    ELSE TAPEInit(a, "remote_homology/remote_homology_" \o a.mode \o ".lmdb", TRUE)

\* ProteinnetDataset.__init__
ProteinnetInit(a) ==
    IF ~InTuple(a.mode, <<"train", "train_unfiltered", "valid", "test">>)
    THEN ModeError(a, <<"train", "train_unfiltered", "valid", "test">>)
    ELSE TAPEInit(a, "proteinnet/proteinnet_" \o a.mode \o ".lmdb", TRUE)

\* SecondaryStructureDataset.__init__
SecondaryStructureInit(a) ==
    IF ~InTuple(a.mode, <<"train", "valid", "casp12", "ts115", "cb513">>)
    THEN ModeError(a, <<"train", "valid", "casp12", "ts115", "cb513">>)
    ELSE TAPEInit(a, "secondary_structure/secondary_structure_" \o a.mode \o ".lmdb",
                  FALSE)

-----------------------------------------------------------------------------
(* Specification SpecCtor: one constructor call of a task dataset *)

\* The modes the model passes: every mode some task accepts, and two that
\* no task accepts
Modes == {"train", "valid", "holdout", "test", "test_fold_holdout",
          "test_family_holdout", "test_superfamily_holdout", "train_unfiltered",
          "casp12", "ts115", "cb513", "Train", ""}

TokenizerArgs == {"bpe", "dummy", "instance"}

InitCtor ==
    /\ task \in Tasks
    /\ \E a \in [mode : Modes, tokenizer : TokenizerArgs, in_memory : BOOLEAN,
                 model_file_exists : BOOLEAN, cwd_file_exists : BOOLEAN,
                 data_path_file_exists : BOOLEAN] :
          ctor_args = Some(a)
    /\ ctor_result = None
    /\ tokenizer = "char"
    /\ SourceIdle /\ PadIdle /\ TaskIdle /\ CollateIdle

\* What a constructor call leaves behind
Constructed(outcome) ==
    /\ ctor_result = None
    /\ ctor_result' = Some(outcome)
    /\ UNCHANGED ctor_args
    /\ UNCHANGED <<sourceVars, tokenizer, task, padVars, taskVars, collateVars>>

PfamNew ==
    /\ task = "pfam"
    /\ Constructed(PfamInit(ctor_args[1]))

FluorescenceNew ==
    /\ task = "fluorescence"
    /\ Constructed(FluorescenceInit(ctor_args[1]))

StabilityNew ==
    /\ task = "stability"
    /\ Constructed(StabilityInit(ctor_args[1]))

RemoteHomologyNew ==
    /\ task = "remote_homology"
    /\ Constructed(RemoteHomologyInit(ctor_args[1]))

ProteinnetNew ==
    /\ task = "contact_prediction"
    /\ Constructed(ProteinnetInit(ctor_args[1]))

SecondaryStructureNew ==
    /\ task = "secondary_structure"
    /\ Constructed(SecondaryStructureInit(ctor_args[1]))

NextCtor ==
    \/ PfamNew
    \/ FluorescenceNew
    \/ StabilityNew
    \/ RemoteHomologyNew
    \/ ProteinnetNew
    \/ SecondaryStructureNew

SpecCtor == InitCtor /\ [][NextCtor]_vars

-----------------------------------------------------------------------------
(* The collators.  A batch is a list of the tuples a dataset returned; the *)
(* returned dictionary is a function from its keys to tensors.             *)

\* tuple(zip(*batch))[j - 1] as a list of arrays: field j of every example
Column(batch, j) == [k \in 1..Len(batch) |-> batch[k][j]]

\* the same for a field that holds 1-D arrays
ArrayColumn(batch, j) == [k \in 1..Len(batch) |-> Array1(batch[k][j])]

\* torch.LongTensor / torch.FloatTensor of a tuple of scalars
Tensor1(batch, j) == Array1(Column(batch, j))

\* EmbedBatch.__call__
EmbedBatch(batch) ==
    [input_ids |-> _pad(ArrayColumn(batch, 2), 0),
     attention_mask |-> _pad(ArrayColumn(batch, 3), 0)]

\* PfamBatch.__call__
PfamBatch(batch) ==
    [input_ids |-> _pad(ArrayColumn(batch, 1), 0),
     attention_mask |-> _pad(ArrayColumn(batch, 2), 0),
     masked_lm_labels |-> _pad(ArrayColumn(batch, 3), -1),
     clan_labels |-> Tensor1(batch, 4),
     family_labels |-> Tensor1(batch, 5)]

\* Mutant: the attention mask is padded with ones
FluorescenceBatch_PadMaskWithOnes(batch) ==
    [input_ids |-> _pad(ArrayColumn(batch, 1), 0),
     attention_mask |-> _pad(ArrayColumn(batch, 2), 1),
     target |-> Tensor1(batch, 3)]

\* FluorescenceBatch.__call__
FluorescenceBatch(batch) ==
    [input_ids |-> _pad(ArrayColumn(batch, 1), 0),
     attention_mask |-> _pad(ArrayColumn(batch, 2), 0),
     target |-> Tensor1(batch, 3)]

\* StabilityBatch.__call__
StabilityBatch(batch) ==
    [input_ids |-> _pad(ArrayColumn(batch, 1), 0),
     attention_mask |-> _pad(ArrayColumn(batch, 2), 0),
     target |-> Tensor1(batch, 3)]

\* RemoteHomologyBatch.__call__
RemoteHomologyBatch(batch) ==
    [input_ids |-> _pad(ArrayColumn(batch, 1), 0),
     attention_mask |-> _pad(ArrayColumn(batch, 2), 0),
     label |-> Tensor1(batch, 3)]

\* ProteinnetBatch.__call__
ProteinnetBatch(batch) ==
    [input_ids |-> _pad(ArrayColumn(batch, 1), 0),
     attention_mask |-> _pad(ArrayColumn(batch, 2), 0),
     contact_labels |-> _pad(Column(batch, 3), -1)]

\* Mutant: the token lengths are padded with the label fill -1
SecondaryStructureBatch_PadLengthsAsLabels(batch) ==
    LET out == [input_ids |-> _pad(ArrayColumn(batch, 1), 0),
                attention_mask |-> _pad(ArrayColumn(batch, 2), 0),
                sequence_labels |-> _pad(ArrayColumn(batch, 3), -1)]
    IN  IF ~\E k \in 1..Len(batch) : batch[k][4] = None
        THEN out @@ ("token_lengths" :>
                        _pad([k \in 1..Len(batch) |-> Array1(batch[k][4][1])], -1))
        ELSE out

\* SecondaryStructureBatch.__call__
SecondaryStructureBatch(batch) ==
    LET out == [input_ids |-> _pad(ArrayColumn(batch, 1), 0),
                attention_mask |-> _pad(ArrayColumn(batch, 2), 0),
                sequence_labels |-> _pad(ArrayColumn(batch, 3), -1)]
    IN  IF ~\E k \in 1..Len(batch) : batch[k][4] = None
        THEN out @@ ("token_lengths" :>
                        _pad([k \in 1..Len(batch) |-> Array1(batch[k][4][1])], 1))
        ELSE out

-----------------------------------------------------------------------------
(* Specification SpecCollate: one call of a task's collator on a batch of  *)
(* tuples the task's dataset returns.                                      *)

CollateTasks == Tasks \cup {"embed"}

\* Proteins of the batches: the proteins of the data files
BatchPrimaries == {Pool[k] : k \in 1..Len(Pool)}

\* Residue k of a protein sits at (5 (k - 1), 0, 0)
LineCoordinates(n) == [k \in 1..n |-> <<5 * (k - 1), 0, 0>>]

\* The __getitem__ results the model puts into a task's batches
Results(t) ==
    CASE t = "embed" ->
            {LET e == TAPEExample([primary |-> pr], tok, TRUE)
             IN  [status |-> "ok", value |-> <<e.item, e.tokens, e.attention_mask>>] :
                pr \in BatchPrimaries, tok \in Tokenizers}
      [] t = "pfam" ->
            {PfamExample([primary |-> pr, clan |-> 3, family |-> 7], tok,
                         [i \in 1..(Len(tokenize(tok, pr)) + 2) |-> [prob |-> pb, id |-> 0]]) :
                pr \in BatchPrimaries, tok \in Tokenizers, pb \in {0, 999}}
      [] t = "fluorescence" ->
            {FluorescenceExample([primary |-> pr, log_fluorescence |-> <<Len(pr) - 2>>], tok) :
                pr \in BatchPrimaries, tok \in Tokenizers}
      [] t = "stability" ->
            {StabilityExample([primary |-> pr, stability_score |-> <<1 - Len(pr)>>], tok) :
                pr \in BatchPrimaries, tok \in Tokenizers}
      [] t = "remote_homology" ->
            {RemoteHomologyExample([primary |-> pr, fold_label |-> Len(pr)], tok) :
                pr \in BatchPrimaries, tok \in Tokenizers}
      [] t = "contact_prediction" ->
            {ProteinnetExample([primary |-> pr, tertiary |-> LineCoordinates(Len(pr)),
                                valid_mask |-> [k \in 1..Len(pr) |-> k # v]], tok) :
                pr \in BatchPrimaries, tok \in Tokenizers, v \in {0, 1}}
      [] t = "secondary_structure" ->
            {SecondaryStructureExample(
                 [primary |-> pr, ss3 |-> SS3(Len(pr)), ss8 |-> SS8(Len(pr))], tok, 3) :
                pr \in BatchPrimaries, tok \in Tokenizers}

\* The tuples among them (a call that raised returns none)
Examples(t) == {r.value : r \in {x \in Results(t) : x.status = "ok"}}

InitCollate ==
    /\ task \in CollateTasks
    /\ \E n \in 1..MaxBatch : batch_in \in [1..n -> Examples(task)]
    /\ collated = None
    /\ tokenizer = "char"
    /\ SourceIdle /\ PadIdle /\ TaskIdle /\ CtorIdle

\* What a collator call leaves behind
Collated(out) ==
    /\ collated = None
    /\ collated' = Some(out)
    /\ UNCHANGED batch_in
    /\ UNCHANGED <<sourceVars, tokenizer, task, padVars, taskVars, ctorVars>>

EmbedCollate ==
    /\ task = "embed"
    /\ Collated(EmbedBatch(batch_in))

PfamCollate ==
    /\ task = "pfam"
    /\ Collated(PfamBatch(batch_in))

FluorescenceCollate ==
    /\ task = "fluorescence"
    /\ Collated(FluorescenceBatch(batch_in))

StabilityCollate ==
    /\ task = "stability"
    /\ Collated(StabilityBatch(batch_in))

RemoteHomologyCollate ==
    /\ task = "remote_homology"
    /\ Collated(RemoteHomologyBatch(batch_in))

ProteinnetCollate ==
    /\ task = "contact_prediction"
    /\ Collated(ProteinnetBatch(batch_in))

SecondaryStructureCollate ==
    /\ task = "secondary_structure"
    /\ Collated(SecondaryStructureBatch(batch_in))

NextCollate ==
    \/ EmbedCollate
    \/ PfamCollate
    \/ FluorescenceCollate
    \/ StabilityCollate
    \/ RemoteHomologyCollate
    \/ ProteinnetCollate
    \/ SecondaryStructureCollate

SpecCollate == InitCollate /\ [][NextCollate]_vars

-----------------------------------------------------------------------------
(* Properties of the record sources and of TAPEDataset (under Spec) *)

InRange(i) == 0 <= i /\ i < num_examples

\* C1: a __getitem__ call of FastaDataset, LMDBDataset (or of TAPEDataset,
\* which delegates to them) with an index outside [0, length), negative
\* indices included, raises IndexError carrying that index, reads nothing
\* from the underlying store, and leaves length and cache as they were.
C1_OutOfRangeFails ==
    [][(calls' = calls + 1 /\ ~InRange(ret'.index))
          => /\ ret'.status = "IndexError"
             /\ ret'.error = Some(ret'.index)
             /\ ret'.item = None
             /\ reads' = reads
             /\ cache' = cache
             /\ num_examples' = num_examples
             /\ in_memory' = in_memory]_vars

\* C1 witness: an in-memory LMDB dataset with a populated cache slot has
\* just refused a negative index
C1_Witness ==
    /\ kind = "lmdb" /\ in_memory
    /\ ret.op = "LMDBDataset" /\ ret.status = "IndexError" /\ ret.index < 0
    /\ \E k \in 1..Len(cache) : cache[k] # None

\* C2: in an in-memory LMDBDataset the store is read at most once per index;
\* a cache slot, once populated by the first get(i), keeps the value of that
\* first read for good, and every get(i) returns that value.
C2_CacheNeverInvalidated ==
    (kind = "lmdb" /\ in_memory) =>
        \A i \in Indexes :
            /\ reads[i] <= 1
            /\ first[i] # None =>
                  /\ InRange(i)
                  /\ reads[i] = 1
                  /\ cache[i + 1] = first[i]
            /\ (InRange(i) /\ cache[i + 1] # None) => first[i] = cache[i + 1]
            /\ (ret.status = "ok" /\ ret.index = i) => ret.item = first[i]

\* C2 witness: some index was served twice from one read of the store
C2_Witness ==
    /\ kind = "lmdb" /\ in_memory
    /\ \E i \in Indexes :
          /\ served[i] >= 2 /\ reads[i] = 1
          /\ ret.op = "LMDBDataset" /\ ret.status = "ok" /\ ret.index = i

\* C4: with a tokenizer that emits one token per residue, TAPEDataset's
\* __getitem__ returns, for a valid index, L + 2 tokens (L the length of the
\* record's primary sequence), the first the cls token and the last the sep
\* token (their ids when ids are asked for), and an attention mask of the
\* same length that is all ones.
C4_TokensAndMask ==
    (ret.op = "TAPEDataset" /\ InRange(ret.index) /\ tokenizer = "char") =>
        /\ ret.status = "ok"
        /\ ret.item[1].primary = PoolSeq(ret.index)
        /\ LET L == Len(ret.item[1].primary)
               n == Len(ret.tokens)
           IN  /\ n = L + 2
               /\ ret.tokens[1] = IF _convert_tokens_to_ids
                                  THEN convert_token_to_id(cls_token)
                                  ELSE cls_token
               /\ ret.tokens[n] = IF _convert_tokens_to_ids
                                  THEN convert_token_to_id(sep_token)
                                  ELSE sep_token
               /\ Len(ret.attention_mask) = n
               /\ \A k \in 1..n : ret.attention_mask[k] = 1

\* C4 witness: a three-residue record came back as five token ids
C4_Witness ==
    /\ ret.op = "TAPEDataset" /\ ret.status = "ok" /\ tokenizer = "char"
    /\ _convert_tokens_to_ids
    /\ Len(ret.item[1].primary) = 3
    /\ Len(ret.tokens) = 5

-----------------------------------------------------------------------------
(* Properties of _pad (under SpecPad) *)

\* C3: for a non-empty list of same-rank arrays and a fill constant c, _pad
\* returns a buffer of shape [batch_size, *max_shape], max_shape the
\* per-axis maximum over the examples; row k holds example k in its leading
\* sub-region and c everywhere else.  With examples of equal shape the
\* buffer holds exactly the examples' elements; 1-D examples of lengths 5
\* and 8 give shape [2, 8], the shorter one left-aligned and padded on the
\* right.
C3_PadShapeAndFill ==
    padded # None =>
        LET out == padded[1]
            n == Len(sequences_in)
            rank == Len(sequences_in[1].shape)
        IN  /\ Len(out.shape) = rank + 1
            /\ out.shape[1] = n
            /\ \A a \in 1..rank :
                  /\ \A k \in 1..n : sequences_in[k].shape[a] <= out.shape[a + 1]
                  /\ \E k \in 1..n : sequences_in[k].shape[a] = out.shape[a + 1]
            /\ DOMAIN out.data = Indices(out.shape)
            /\ \A k \in 1..n : \A u \in Indices(Tail(out.shape)) :
                  out.data[<<k - 1>> \o u] =
                      IF \A a \in 1..rank : u[a] < sequences_in[k].shape[a]
                      THEN sequences_in[k].data[u]
                      ELSE constant_in
            /\ (\A k \in 1..n : sequences_in[k].shape = sequences_in[1].shape) =>
                  /\ Tail(out.shape) = sequences_in[1].shape
                  /\ \A t \in DOMAIN out.data :
                        out.data[t] = sequences_in[t[1] + 1].data[Tail(t)]
            /\ (n = 2 /\ sequences_in[1].shape = <<5>> /\ sequences_in[2].shape = <<8>>) =>
                  /\ out.shape = <<2, 8>>
                  /\ \A j \in 0..4 : out.data[<<0, j>>] = sequences_in[1].data[<<j>>]
                  /\ \A j \in 5..7 : out.data[<<0, j>>] = constant_in
                  /\ \A j \in 0..7 : out.data[<<1, j>>] = sequences_in[2].data[<<j>>]

\* C3 witness: 1-D examples of lengths 5 and 8 were padded with -1 to [2, 8]
C3_Witness ==
    /\ padded # None
    /\ Len(sequences_in) = 2
    /\ sequences_in[1].shape = <<5>> /\ sequences_in[2].shape = <<8>>
    /\ constant_in = -1
    /\ padded[1].shape = <<2, 8>>
    /\ padded[1].data[<<0, 7>>] = -1
    /\ padded[1].data[<<0, 4>>] # -1

-----------------------------------------------------------------------------
(* Properties of the task datasets (under SpecTask) *)

\* The last call was made with the index of a record
Fetched(t) == task = t /\ ret.op # "none" /\ InRange(ret.index)

\* The record that call fetched
FetchedItem == store[ret.index + 1]

\* The last call returned a contact map
ContactReturned == Fetched("contact_prediction") /\ example # None

\* Whether residues r and c (0-based) of the fetched record are closer than
\* the threshold, from the coordinates themselves
Closer(r, c) ==
    SqDist(FetchedItem.tertiary[r + 1], FetchedItem.tertiary[c + 1])
        < ContactThreshold * ContactThreshold

\* C7: the contact map of a record with N residue coordinates is N x N,
\* equals its transpose, holds -1 exactly where the validity mask is false
\* for the row or for the column, and elsewhere holds 1 if the two residues
\* are strictly closer than 8.0 and 0 otherwise.
C7_ContactMap ==
    /\ (Fetched("contact_prediction") /\ Len(FetchedItem.tertiary) >= 1) =>
          ContactReturned
    /\ ContactReturned =>
        /\ ret.status = "ok"
        /\ LET cm == example[1].value[3]
               N == Len(FetchedItem.tertiary)
               valid == FetchedItem.valid_mask
           IN  /\ cm.shape = <<N, N>>
               /\ DOMAIN cm.data = (0..(N - 1)) \X (0..(N - 1))
               /\ \A r, c \in 0..(N - 1) :
                     /\ cm.data[<<r, c>>] = cm.data[<<c, r>>]
                     /\ cm.data[<<r, c>>] = -1 <=> (~valid[r + 1] \/ ~valid[c + 1])
                     /\ (valid[r + 1] /\ valid[c + 1]) =>
                           cm.data[<<r, c>>] = IF Closer(r, c) THEN 1 ELSE 0

\* C7 witness: a map with an ignored entry, a contact, and a pair of valid
\* residues exactly 8.0 apart that is no contact
C7_Witness ==
    /\ ContactReturned
    /\ Len(FetchedItem.tertiary) = 3
    /\ FetchedItem.tertiary = << <<0, 0, 0>>, <<0, 8, 0>>, <<1, 0, 0>> >>
    /\ FetchedItem.valid_mask = <<TRUE, TRUE, FALSE>>
    /\ example[1].value[3].data[<<0, 1>>] = 0
    /\ example[1].value[3].data[<<0, 0>>] = 1
    /\ example[1].value[3].data[<<1, 2>>] = -1

\* The record of the scenario: three residues on a line, all valid
ScenarioFetched ==
    /\ ContactReturned
    /\ FetchedItem.tertiary = << <<0, 0, 0>>, <<1, 0, 0>>, <<10, 0, 0>> >>
    /\ FetchedItem.valid_mask = <<TRUE, TRUE, TRUE>>

\* C8 as stated: for the all-valid record with coordinates [[0,0,0],
\* [1,0,0],[10,0,0]] the 3 x 3 contact map holds 0 for every pair involving
\* the third coordinate and 1 for every other pair, and no -1.
C8_AsStated ==
    ScenarioFetched =>
        LET cm == example[1].value[3]
        IN  /\ cm.shape = <<3, 3>>
            /\ \A r, c \in 0..2 :
                  cm.data[<<r, c>>] = IF r = 2 \/ c = 2 THEN 0 ELSE 1

\* C8 amended: for that record the 3 x 3 contact map holds 0 for every pair
\* of two different residues one of which is the third, and 1 for every
\* other entry, the third residue's own diagonal entry (distance 0)
\* included; the map holds no -1.
C8_ScenarioMap ==
    ScenarioFetched =>
        LET cm == example[1].value[3]
        IN  /\ cm.shape = <<3, 3>>
            /\ \A r, c \in 0..2 :
                  /\ cm.data[<<r, c>>] = IF (r = 2 \/ c = 2) /\ r # c THEN 0 ELSE 1
                  /\ cm.data[<<r, c>>] # -1

\* C8 witness: the scenario's map was returned, with the third residue in
\* contact with itself and with no other residue
C8_Witness ==
    /\ ScenarioFetched
    /\ example[1].value[3].data[<<2, 2>>] = 1
    /\ example[1].value[3].data[<<0, 2>>] = 0
    /\ example[1].value[3].data[<<1, 2>>] = 0
    /\ example[1].value[3].data[<<0, 1>>] = 1

PfamReturned == Fetched("pfam")

\* The token sequence _apply_bert_mask was given
PfamTokens == <<cls_token>> \o tokenize(tokenizer, FetchedItem.primary) \o <<sep_token>>

\* C9: in the masked-LM labelling, at every token position, the cls and sep
\* positions included, the label is the id of the original token exactly
\* when the draw for the position is below 0.15 and is -1 otherwise; where
\* the label is -1 the output token is the input token; and there are as
\* many labels as tokens.
C9_MaskLabels ==
    PfamReturned =>
        /\ ret.status = "ok"
        /\ example # None
        /\ LET ids == example[1].value[1]
               labels == example[1].value[3]
               n == Len(PfamTokens)
           IN  /\ Len(labels) = n
               /\ Len(ids) = n
               /\ Len(rand) = n
               /\ \A i \in 1..n :
                     /\ rand[i].prob < MaskProb =>
                           labels[i] = convert_token_to_id(PfamTokens[i])
                     /\ ~(rand[i].prob < MaskProb) => labels[i] = -1
                     /\ labels[i] = -1 => ids[i] = convert_token_to_id(PfamTokens[i])

\* C9 witness: the cls token was masked out and labelled, the sep token
\* was left alone, and a residue in between was replaced by a random token
C9_Witness ==
    /\ PfamReturned
    /\ example # None
    /\ Len(PfamTokens) = 3
    /\ rand[1].prob < MaskProb
    /\ example[1].value[3][1] = convert_token_to_id(cls_token)
    /\ example[1].value[1][1] = convert_token_to_id(mask_token)
    /\ example[1].value[3][3] = -1
    /\ example[1].value[1][3] = convert_token_to_id(sep_token)
    /\ AsksRandint(rand[2].prob)
    /\ example[1].value[1][2] = rand[2].id

-----------------------------------------------------------------------------
(* Properties of the constructors (under SpecCtor) *)

\* The enumerated set of modes of each task, as the specification gives it
ModeSet(t) ==
    CASE t = "pfam" -> {"train", "valid", "holdout"}
      [] t = "fluorescence" -> {"train", "valid", "test"}
      [] t = "stability" -> {"train", "valid", "test"}
      [] t = "remote_homology" ->
            {"train", "valid", "test_fold_holdout", "test_family_holdout",
             "test_superfamily_holdout"}
      [] t = "contact_prediction" -> {"train", "train_unfiltered", "valid", "test"}
      [] t = "secondary_structure" -> {"train", "valid", "casp12", "ts115", "cb513"}

\* C6: constructing a task dataset with a mode outside the task's set fails
\* with a value error naming the mode and the allowed set, before any
\* tokenizer is loaded and before any file is looked for (never a not-found
\* error, whatever is on disk); with a mode inside the set no value error
\* is raised.
C6_ModeCheckedFirst ==
    ctor_result # None =>
        LET a == ctor_args[1]
            r == ctor_result[1]
        IN  /\ a.mode \notin ModeSet(task) =>
                  /\ r.status = "ValueError"
                  /\ r.mode = a.mode
                  /\ {r.modes[k] : k \in 1..Len(r.modes)} = ModeSet(task)
                  /\ ~r.tokenizer_loaded
                  /\ ~r.file_checked
            /\ a.mode \in ModeSet(task) => r.status # "ValueError"

\* C6 witness: an invalid mode, no data file and no tokenizer model on disk,
\* and the constructor ended in the value error
C6_Witness ==
    /\ ctor_result # None
    /\ task = "pfam"
    /\ ctor_args[1].mode = "test"
    /\ ~ctor_args[1].cwd_file_exists /\ ~ctor_args[1].data_path_file_exists
    /\ ~ctor_args[1].model_file_exists /\ ctor_args[1].tokenizer = "bpe"
    /\ ctor_result[1].status = "ValueError"

-----------------------------------------------------------------------------
(* Properties of the collators (under SpecCollate) *)

\* Position of the token ids in a task's example tuple
IdsField == IF task = "embed" THEN 2 ELSE 1

\* Token length of example k of the batch
TokenLength(k) == Len(batch_in[k][IdsField])

\* Whether a 2-D tensor holds the rows of a list of 1-D arrays left-aligned,
\* filled up with c to the length of the longest
RowsFilled(tensor, rows, c) ==
    /\ Len(tensor.shape) = 2
    /\ tensor.shape[1] = Len(rows)
    /\ \A k \in 1..Len(rows) : Len(rows[k]) <= tensor.shape[2]
    /\ \E k \in 1..Len(rows) : Len(rows[k]) = tensor.shape[2]
    /\ DOMAIN tensor.data = (0..(tensor.shape[1] - 1)) \X (0..(tensor.shape[2] - 1))
    /\ \A k \in 1..Len(rows) : \A j \in 0..(tensor.shape[2] - 1) :
          tensor.data[<<k - 1, j>>] = IF j < Len(rows[k]) THEN rows[k][j + 1] ELSE c

\* C5: in every collated batch the attention mask is 1 at column j of row k
\* exactly when j is below the token length of example k, over all columns
\* up to the longest token length of the batch, and 0 otherwise; input_ids
\* has the shape of the attention mask and holds 0 at every padding
\* position.
C5_AttentionMask ==
    collated # None =>
        LET mask == collated[1].attention_mask
            ids == collated[1].input_ids
            n == Len(batch_in)
        IN  /\ mask.shape[1] = n
            /\ \A k \in 1..n : TokenLength(k) <= mask.shape[2]
            /\ \E k \in 1..n : TokenLength(k) = mask.shape[2]
            /\ ids.shape = mask.shape
            /\ \A k \in 1..n : \A j \in 0..(mask.shape[2] - 1) :
                  /\ mask.data[<<k - 1, j>>] = IF j < TokenLength(k) THEN 1 ELSE 0
                  /\ j >= TokenLength(k) => ids.data[<<k - 1, j>>] = 0
                  /\ j < TokenLength(k) =>
                        ids.data[<<k - 1, j>>] = batch_in[k][IdsField][j + 1]

\* C5 witness: a fluorescence batch of a 3-token and a 5-token example
C5_Witness ==
    /\ collated # None
    /\ task = "fluorescence"
    /\ Len(batch_in) = 2
    /\ TokenLength(1) = 3 /\ TokenLength(2) = 5
    /\ collated[1].attention_mask.shape = <<2, 5>>
    /\ collated[1].attention_mask.data[<<0, 2>>] = 1
    /\ collated[1].attention_mask.data[<<0, 3>>] = 0
    /\ collated[1].input_ids.data[<<0, 4>>] = 0

SSCollated == task = "secondary_structure" /\ collated # None

\* C10: the batch of the secondary-structure collator has the key
\* 'token_lengths' exactly when every example supplied a token-length
\* array; then it holds the arrays filled up with 1; and 'input_ids',
\* 'attention_mask' and 'sequence_labels' are the examples' arrays filled
\* up with 0, 0 and -1, with or without 'token_lengths'.
C10_TokenLengths ==
    SSCollated =>
        LET out == collated[1]
            n == Len(batch_in)
            all_given == \A k \in 1..n : batch_in[k][4] # None
        IN  /\ ("token_lengths" \in DOMAIN out) <=> all_given
            /\ DOMAIN out \ {"token_lengths"} =
                  {"input_ids", "attention_mask", "sequence_labels"}
            /\ all_given =>
                  RowsFilled(out.token_lengths, [k \in 1..n |-> batch_in[k][4][1]], 1)
            /\ RowsFilled(out.input_ids, Column(batch_in, 1), 0)
            /\ RowsFilled(out.attention_mask, Column(batch_in, 2), 0)
            /\ RowsFilled(out.sequence_labels, Column(batch_in, 3), -1)

\* C10 witness: a batch of two subword-tokenized examples of different
\* token counts, collated with token lengths filled up with 1
C10_Witness ==
    /\ SSCollated
    /\ Len(batch_in) = 2
    /\ batch_in[1][4] # None /\ batch_in[2][4] # None
    /\ Len(batch_in[1][4][1]) = 3 /\ Len(batch_in[2][4][1]) = 4
    /\ "token_lengths" \in DOMAIN collated[1]
    /\ collated[1].token_lengths.data[<<0, 3>>] = 1
    /\ collated[1].sequence_labels.data[<<0, 4>>] = -1

\* Reachable as well: one example without token lengths suppresses the key
C10_Suppressed ==
    /\ SSCollated
    /\ Len(batch_in) = 2
    /\ batch_in[1][4] # None /\ batch_in[2][4] = None
    /\ "token_lengths" \notin DOMAIN collated[1]

=============================================================================
